---- MODULE Spec2Model ----
(***************************************************************************)
(* A model of research-agent-mvp.py: the ResearchAgent class (search_web,  *)
(* extract_content, generate_summary, research) and the way agents share   *)
(* the process-wide openai.api_key.                                        *)
(*                                                                         *)
(* Python strings (titles, queries, page text, summaries) are modelled as  *)
(* run-length encoded text: a sequence of runs [c |-> chunk, n |-> count], *)
(* the chunk c (a literal piece of text) repeated n times.  Whitespace is  *)
(* always its own chunk (" ", "\n"); a chunk that is not whitespace never  *)
(* starts or ends with whitespace and holds no run of whitespace.  URLs    *)
(* are sequences of URL tokens ("https:", "//", a host label, ":8080",     *)
(* "[", "]", "/").                                                         *)
(***************************************************************************)
EXTENDS Integers, Sequences, FiniteSets, TLC

VARIABLES
  pc,         \* position of the research() run
  cfg,        \* the agent's credentials: [search |-> BOOLEAN, openai |-> BOOLEAN]
  query,      \* the query of the run
  results,    \* search_results (line 191)
  sources,    \* sources (line 200)
  summary,    \* the summary returned
  log,        \* the calls made by the run, in order
  errors,     \* what was passed to st.error, in order
  completion, \* the outcome of the ChatCompletion call: "none", "ok", "failed"
  xin,        \* input of a single call of extract_content / generate_summary
  xout,       \* what that call produced
  agents,     \* the ResearchAgent instances constructed so far
  env,        \* the environment variable OPENAI_API_KEY ("" when unset)
  apiKey,     \* the module attribute openai.api_key ("" when None)
  requests    \* the completion requests sent, with the credential in force

vars == <<pc, cfg, query, results, sources, summary, log, errors, completion,
          xin, xout, agents, env, apiKey, requests>>

-----------------------------------------------------------------------------
(* Text *)

Whitespace == {" ", "\n", "\t"}

IsWs(r) == r.c \in Whitespace

Rep(c, n) == IF n = 0 THEN <<>> ELSE <<[c |-> c, n |-> n]>>

Lit(c) == Rep(c, 1)

\* s + t
Cat(s, t) ==
  IF s = <<>> THEN t
  ELSE IF t = <<>> THEN s
  ELSE IF s[Len(s)].c = t[1].c
       THEN SubSeq(s, 1, Len(s) - 1)
              \o <<[c |-> t[1].c, n |-> s[Len(s)].n + t[1].n]>>
              \o Tail(t)
       ELSE s \o t

RECURSIVE StrLen(_)
\* len(s)
StrLen(s) == IF s = <<>> THEN 0 ELSE Len(s[1].c) * s[1].n + StrLen(Tail(s))

RECURSIVE LStrip(_)
LStrip(s) == IF s = <<>> THEN <<>>
             ELSE IF IsWs(s[1]) THEN LStrip(Tail(s)) ELSE s

RECURSIVE RStrip(_)
RStrip(s) == IF s = <<>> THEN <<>>
             ELSE IF IsWs(s[Len(s)]) THEN RStrip(SubSeq(s, 1, Len(s) - 1)) ELSE s

\* s.strip()
Strip(s) == RStrip(LStrip(s))

RECURSIVE SquashWs(_)
SquashWs(s) ==
  IF s = <<>> THEN <<>>
  ELSE IF IsWs(s[1]) THEN Lit(" ") \o SquashWs(LStrip(s))
  ELSE <<s[1]>> \o SquashWs(Tail(s))

\* ' '.join(s.split())
SplitJoin(s) == SquashWs(Strip(s))

RECURSIVE Take(_, _)
\* s[:k]  (a chunk cut in the middle keeps its whole repetitions only; the
\* chunks of page text are single characters)
Take(s, k) ==
  IF s = <<>> \/ k <= 0 THEN <<>>
  ELSE LET w == Len(s[1].c) * s[1].n
       IN IF w <= k THEN <<s[1]>> \o Take(Tail(s), k - w)
          ELSE Rep(s[1].c, k \div Len(s[1].c))

RECURSIVE Join(_, _)
\* sep.join(parts)
Join(sep, parts) ==
  IF parts = <<>> THEN <<>>
  ELSE IF Len(parts) = 1 THEN parts[1]
  ELSE Cat(Cat(parts[1], sep), Join(sep, Tail(parts)))

\* ''.join(parts)
CatAll(parts) == Join(<<>>, parts)

\* a run of two or more consecutive whitespace characters occurs in s
HasWsRun(s) ==
  \E i \in 1..Len(s) :
    IsWs(s[i]) /\ (s[i].n >= 2 \/ (i < Len(s) /\ IsWs(s[i + 1])))

RECURSIVE SeqsUpTo(_, _)
\* the sequences over S of length at most n
SeqsUpTo(S, n) ==
  IF n = 0 THEN {<<>>}
  ELSE LET P == SeqsUpTo(S, n - 1)
       IN P \cup {Append(p, x) : p \in {q \in P : Len(q) = n - 1}, x \in S}

-----------------------------------------------------------------------------
(* URLs: urllib.parse.urlparse(url).netloc *)

SchemeTok == "https:"

\* the tokens that are not part of a host label
SpecialToks == {SchemeTok, "//", "/p", "[", ":8080"}

RECURSIVE UpToPath(_)
\* the tokens before the first "/"
UpToPath(t) ==
  IF t = <<>> \/ t[1] \in {"/p", "//"} THEN <<>> ELSE <<t[1]>> \o UpToPath(Tail(t))

AfterScheme(url) == IF url # <<>> /\ url[1] = SchemeTok THEN Tail(url) ELSE url

HasNetloc(url) == AfterScheme(url) # <<>> /\ AfterScheme(url)[1] = "//"

NetlocToks(url) == IF HasNetloc(url) THEN UpToPath(Tail(AfterScheme(url))) ELSE <<>>

\* urlsplit raises ValueError("Invalid IPv6 URL") on a "[" without its "]"
UrlParseRaises(url) == \E i \in 1..Len(NetlocToks(url)) : NetlocToks(url)[i] = "["

RECURSIVE ToksText(_)
ToksText(t) == IF t = <<>> THEN <<>> ELSE Cat(Lit(t[1]), ToksText(Tail(t)))

\* urlparse(url).netloc, where it does not raise
Netloc(url) == ToksText(NetlocToks(url))

\* requests.get can have a response only for an absolute URL with a host
CanFetch(url) ==
  /\ url # <<>> /\ url[1] = SchemeTok
  /\ HasNetloc(url)
  /\ ~UrlParseRaises(url)
  /\ NetlocToks(url) # <<>>
  /\ NetlocToks(url)[1] \notin SpecialToks

-----------------------------------------------------------------------------
(* extract_content *)

MaxContentLen == 3000

ParagraphLimit == 20

NoiseTags == {"script", "style", "nav", "header", "footer"}

ContainerTags == {"article", "main", "div"}

ContentClasses == {"content", "article-body", "post-content"}

\* for element in soup([...]): element.decompose()
Decompose(elems) ==
  SelectSeq(elems, LAMBDA e : e.tag \notin NoiseTags /\ e.parent \notin NoiseTags)

\* find_all matching the tag or the class instead of both
ContentTagsTagOrClass(elems) ==
  SelectSeq(elems, LAMBDA e : e.tag \in {"article", "main"} \/ e.cls \in ContentClasses)

\* soup.find_all(['article', 'main', 'div'], class_=[...])
ContentTags(elems) ==
  SelectSeq(elems, LAMBDA e : e.tag \in ContainerTags /\ e.cls \in ContentClasses)

\* soup.find_all('p')
Paragraphs(elems) == SelectSeq(elems, LAMBDA e : e.tag = "p")

\* tag.get_text(strip=True, ...) of an element holding one text node
GetText(e) == Strip(e.text)

Texts(elems) == [i \in 1..Len(elems) |-> GetText(elems[i])]

FirstN(s, n) == SubSeq(s, 1, IF Len(s) < n THEN Len(s) ELSE n)

\* lines 109-117
SelectContent(doc) ==
  LET body == Decompose(doc.elems)
      content_tags == ContentTags(body)
  IN IF content_tags # <<>>
     THEN Join(Lit(" "), Texts(content_tags))
     ELSE Join(Lit(" "), Texts(FirstN(Paragraphs(body), ParagraphLimit)))

\* lines 120-121
CleanContent(content) == Take(SplitJoin(content), MaxContentLen)

\* lines 101-102; the second component says whether urlparse raised
TitleText(url, doc) ==
  IF doc.hasTitle THEN [raised |-> FALSE, text |-> Strip(doc.title)]
  ELSE [raised |-> UrlParseRaises(url),
        text |-> IF UrlParseRaises(url) THEN <<>> ELSE Netloc(url)]

ErrorPrefix == Cat(Lit("Error extracting content:"), Lit(" "))

\* line 126
ExceptHandler(url, msg) ==
  IF UrlParseRaises(url)
  THEN [raised |-> TRUE, title |-> <<>>, content |-> <<>>]
  ELSE [raised |-> FALSE, title |-> Netloc(url), content |-> Cat(ErrorPrefix, msg)]

InvalidUrlMsg == Lit("Invalid IPv6 URL")

\* extract_content(url), the fetch having had the outcome out:
\* [raised, title, content]
ExtractContent(url, out) ==
  IF ~out.ok THEN ExceptHandler(url, out.err)
  ELSE LET t == TitleText(url, out.doc)
       IN IF t.raised THEN ExceptHandler(url, InvalidUrlMsg)
          ELSE [raised |-> FALSE, title |-> t.text,
                content |-> CleanContent(SelectContent(out.doc))]

-----------------------------------------------------------------------------
(* search_web *)

NumResults == 3

MockResults == 3

Min(a, b) == IF a < b THEN a ELSE b

\* lines 72-79
MockSearch(q, num_results) ==
  [i \in 1..Min(MockResults, num_results) |->
     [title |-> CatAll(<<Lit("Sample Result " \o ToString(i) \o " for:"), Lit(" "), q>>),
      url |-> <<SchemeTok, "//", "example" \o ToString(i) \o ".com", "/p">>,
      snippet |-> CatAll(<<Lit("This is a sample snippet about"), Lit(" "), q,
                            Lit("...")>>)]]

\* lines 59-66: data.get("organic_results", [])[:num_results]
OrganicResults(items, num_results) == SubSeq(items, 1, Min(Len(items), num_results))

-----------------------------------------------------------------------------
(* generate_summary *)

NoResultsMsg == Lit("No search results found.")

NoContentMsg == Lit("No content available to summarize.")

Bullet == "<bullet>"

\* f"[Source {n}]"
Marker(n) == Lit("[Source " \o ToString(n) \o "]")

\* line 175
BulletLine(i, source, q) ==
  CatAll(<< Lit(Bullet), Lit(" "), source.title, Lit(" "),
            Lit("discusses aspects related to"), Lit(" "), q, Lit(" "),
            Marker(i), Lit("\n") >>)

RECURSIVE BulletLines(_, _, _)
\* lines 174-175, from source i on
BulletLines(i, srcs, q) ==
  IF i > Len(srcs) THEN <<>>
  ELSE Cat(BulletLine(i, srcs[i], q), BulletLines(i + 1, srcs, q))

\* lines 173-178
OfflineSummary(srcs, q) ==
  CatAll(<< Lit("Based on the search for '"), q,
            Lit("', here are the key findings:"), Rep("\n", 2),
            BulletLines(1, srcs, q),
            Lit("\n"), Lit("These sources provide various perspectives on"),
            Lit(" "), q, Lit(".") >>)

\* generate_summary without the try/except of lines 158-170
CompletionFailedRaises(srcs, q) ==
  [summary |-> <<>>, error |-> FALSE, raised |-> TRUE, completion |-> "failed"]

\* lines 169-170 and the fall through to line 173
CompletionFailed(srcs, q) ==
  [summary |-> OfflineSummary(srcs, q), error |-> TRUE, raised |-> FALSE,
   completion |-> "failed"]

\* what generate_summary(srcs, q) can do, replies being what the completion
\* call can answer: [summary, error, raised, completion]
GenerateSummary(openai_api_key, srcs, q, replies) ==
  IF srcs = <<>>
  THEN {[summary |-> NoContentMsg, error |-> FALSE, raised |-> FALSE,
         completion |-> "none"]}
  ELSE IF openai_api_key
  THEN {[summary |-> r, error |-> FALSE, raised |-> FALSE, completion |-> "ok"] :
          r \in replies}
       \cup {CompletionFailed(srcs, q)}
  ELSE {[summary |-> OfflineSummary(srcs, q), error |-> FALSE, raised |-> FALSE,
         completion |-> "none"]}

-----------------------------------------------------------------------------
(* The inputs of extract_content: URLs, and what the fetch can give *)

MaxUrlLen == 3

UrlBodyToks == {"//", "h", "[", "/p", ":8080"}

Urls == {pre \o b : pre \in {<<>>, <<SchemeTok>>}, b \in SeqsUpTo(UrlBodyToks, MaxUrlLen)}

LongText == Rep("z", MaxContentLen + 1)

\* str(e) of the exception of a failed fetch of a URL that can be fetched: a
\* timeout, or raise_for_status's message, which quotes the reason phrase the
\* server sent, of any length and spacing
ErrMsgs ==
  { <<>>,
    Lit("Read timed out."),
    Lit("404 Client Error: Not") \o Rep(" ", 2) \o Lit("Found for url"),
    CatAll(<<Lit("500 Server Error:"), Lit(" "), LongText>>) }

\* str(e) of requests' refusal of a URL that cannot be fetched
InvalidUrlErr == Lit("Invalid URL")

MessyText == Rep(" ", 2) \o Lit("x") \o Lit(" ") \o Lit("\n") \o Lit("y") \o Lit(" ")

ElemTags == {"article", "div", "section", "p", "nav"}

ElemClasses == {"", "content"}

ElemTexts == {MessyText, LongText}

Elements ==
  [tag : ElemTags, cls : ElemClasses, parent : {"body"}, text : ElemTexts]
    \cup {[tag |-> "p", cls |-> "", parent |-> "nav", text |-> MessyText]}

MaxElems == 2

PlainParagraph == [tag |-> "p", cls |-> "", parent |-> "body", text |-> Lit("w")]

Pad(k) == [i \in 1..k |-> PlainParagraph]

PadSizes == {0, ParagraphLimit + 1}

PageTitles ==
  { [hasTitle |-> FALSE, title |-> <<>>],
    [hasTitle |-> TRUE, title |-> Rep(" ", 2)],
    [hasTitle |-> TRUE, title |-> Lit("\n") \o Lit("Title") \o Lit(" ")] }

Docs ==
  { [hasTitle |-> t.hasTitle, title |-> t.title, elems |-> h \o Pad(k)] :
      t \in PageTitles, h \in SeqsUpTo(Elements, MaxElems), k \in PadSizes }

NoDoc == [hasTitle |-> FALSE, title |-> <<>>, elems |-> <<>>]

FailOutcomes(url) ==
  {[ok |-> FALSE, err |-> m, doc |-> NoDoc] :
     m \in IF CanFetch(url) THEN ErrMsgs ELSE {InvalidUrlErr}}

OkOutcomes == {[ok |-> TRUE, err |-> <<>>, doc |-> d] : d \in Docs}

\* the pages fetched: absolute URLs of a host, with and without a port
PageUrls == { <<SchemeTok, "//", "h", "/p">>, <<SchemeTok, "//", "h", ":8080">> }

-----------------------------------------------------------------------------
(* Values of the variables a specification does not use *)

NoResult == [raised |-> FALSE, title |-> <<>>, content |-> <<>>]

NoCfg == [search |-> FALSE, openai |-> FALSE]

IdlePipeline ==
  /\ cfg = NoCfg /\ query = <<>> /\ results = <<>> /\ sources = <<>>
  /\ summary = <<>> /\ log = <<>> /\ errors = <<>> /\ completion = "none"

IdleAgents == agents = <<>> /\ env = "" /\ apiKey = "" /\ requests = <<>>

NoCall == [url |-> <<>>, out |-> [ok |-> FALSE, err |-> <<>>, doc |-> NoDoc]]

IdleCall == xin = NoCall /\ xout = NoResult

pipelineVars == <<cfg, query, results, sources, summary, log, errors, completion>>

agentVars == <<agents, env, apiKey, requests>>

-----------------------------------------------------------------------------
(* One call of extract_content *)

InitExtract ==
  /\ pc = "x_call"
  /\ \/ \E u \in Urls : \E o \in FailOutcomes(u) : xin = [url |-> u, out |-> o]
     \/ \E u \in PageUrls, o \in OkOutcomes : xin = [url |-> u, out |-> o]
  /\ xout = NoResult
  /\ IdlePipeline /\ IdleAgents

CallExtract ==
  /\ pc = "x_call"
  /\ xout' = ExtractContent(xin.url, xin.out)
  /\ pc' = IF xout'.raised THEN "x_raised" ELSE "x_ret"
  /\ UNCHANGED <<xin, pipelineVars, agentVars>>

NextExtract == CallExtract

SpecExtract == InitExtract /\ [][NextExtract]_vars

-----------------------------------------------------------------------------
(* Claims about extract_content, under SpecExtract *)

Returned == pc = "x_ret"

\* C4: whatever the URL and whether the fetch succeeded or failed, the
\* content extract_content returns is at most 3000 characters long and holds
\* no run of two or more consecutive whitespace characters.
C4_ContentBoundedAndCollapsed ==
  Returned => /\ StrLen(xout.content) <= 3000
              /\ ~HasWsRun(xout.content)

\* the host name of a URL: its netloc without the port
HostName(url) == ToksText(SelectSeq(NetlocToks(url), LAMBDA t : t # ":8080"))

\* C5: extract_content never raises to its caller, and when the fetch fails
\* it returns the URL's host name as the title and a non-empty content.
C5_NeverRaisesAndErrorContract ==
  /\ pc # "x_raised"
  /\ (Returned /\ ~xin.out.ok) =>
       /\ xout.title = HostName(xin.url)
       /\ xout.content # <<>>

\* the elements left once script, style, nav, header and footer are removed
Visible(doc) ==
  SelectSeq(doc.elems, LAMBDA e :
    /\ e.tag \notin {"script", "style", "nav", "header", "footer"}
    /\ e.parent \notin {"script", "style", "nav", "header", "footer"})

\* the content that the elements chosen give: space-joined, collapsed, cut
ContentOf(chosen) == CleanContent(Join(Lit(" "), Texts(chosen)))

First20Paragraphs(doc) ==
  LET ps == SelectSeq(Visible(doc), LAMBDA e : e.tag = "p")
  IN [i \in 1..(IF Len(ps) < 20 THEN Len(ps) ELSE 20) |-> ps[i]]

\* the elements tagged article or main, or whose class names content
TaggedOrClassed(doc) ==
  SelectSeq(Visible(doc), LAMBDA e :
    \/ e.tag \in {"article", "main"}
    \/ e.cls \in {"content", "article-body", "post-content"})

\* C8 as stated: the content is the text of the elements tagged article or
\* main or classed as content when there is one, and otherwise the text of
\* the first 20 paragraphs.
C8_AsStated ==
  (Returned /\ xin.out.ok) =>
    xout.content = ContentOf(IF TaggedOrClassed(xin.out.doc) # <<>>
                             THEN TaggedOrClassed(xin.out.doc)
                             ELSE First20Paragraphs(xin.out.doc))

\* the article, main and div elements whose class names content
ClassedContainers(doc) ==
  SelectSeq(Visible(doc), LAMBDA e :
    /\ e.tag \in {"article", "main", "div"}
    /\ e.cls \in {"content", "article-body", "post-content"})

\* C8 amended: the content is the text of the article, main and div elements
\* whose class is content, article-body or post-content, in document order,
\* when there is one; only otherwise is it the text of the first 20
\* paragraphs (in both cases whitespace-collapsed and cut to 3000 characters).
C8_ContentSelection ==
  (Returned /\ xin.out.ok) =>
    xout.content = ContentOf(IF ClassedContainers(xin.out.doc) # <<>>
                             THEN ClassedContainers(xin.out.doc)
                             ELSE First20Paragraphs(xin.out.doc))

\* a page with an article of no class and more than 20 paragraphs, whose
\* content came from the paragraphs
C8_Witness ==
  /\ Returned /\ xin.out.ok
  /\ \E i \in 1..Len(xin.out.doc.elems) :
       /\ xin.out.doc.elems[i].tag = "article"
       /\ xin.out.doc.elems[i].cls = ""
  /\ ClassedContainers(xin.out.doc) = <<>>
  /\ Len(SelectSeq(Visible(xin.out.doc), LAMBDA e : e.tag = "p")) > 20
  /\ xout.content # <<>>

-----------------------------------------------------------------------------
(* research: the inputs of a run *)

\* the largest source number a marker of an input text or of a completion names
MaxCite == 4

Queries == { Lit("quantum computing"),
             Cat(Lit("notes"), Cat(Lit(" "), Marker(MaxCite))) }

GoodUrl1 == <<SchemeTok, "//", "h", "/p">>

GoodUrl2 == <<SchemeTok, "//", "h", ":8080">>

BadUrl == <<SchemeTok, "//", "[">>

\* the stubs a live search can list: item.get("title", ""), item.get("link", "")
LiveStubs ==
  { [title |-> Lit("News"), url |-> GoodUrl1, snippet |-> Lit("s")],
    [title |-> Lit("Blog"), url |-> GoodUrl2, snippet |-> <<>>],
    [title |-> <<>>, url |-> <<>>, snippet |-> <<>>],
    [title |-> Lit("Odd"), url |-> BadUrl, snippet |-> <<>>] }

\* the longest organic_results list of a response
MaxItems == 4

\* what requests.get(...).json() can give: a body listing items, or an exception
SearchResponses ==
  {[ok |-> TRUE, items |-> it] : it \in SeqsUpTo(LiveStubs, MaxItems)}
    \cup {[ok |-> FALSE, items |-> <<>>]}

\* search_web(query, num_results) given the response: [results, error]
SearchWeb(search_api_key, q, num_results, resp) ==
  IF search_api_key
  THEN IF resp.ok
       THEN [results |-> OrganicResults(resp.items, num_results), error |-> FALSE]
       ELSE [results |-> <<>>, error |-> TRUE]
  ELSE [results |-> MockSearch(q, num_results), error |-> FALSE]

PipeDocs ==
  { [hasTitle |-> TRUE, title |-> Lit("Page"),
     elems |-> <<[tag |-> "div", cls |-> "content", parent |-> "body", text |-> MessyText]>>],
    [hasTitle |-> TRUE, title |-> Lit(" "),
     elems |-> <<[tag |-> "p", cls |-> "", parent |-> "body", text |-> LongText]>>],
    [hasTitle |-> TRUE, title |-> Cat(Lit("Re"), Cat(Lit(" "), Marker(1))),
     elems |-> <<>>] }

\* what the fetch of url can give in a run: a page or a timeout, and for a
\* URL that cannot be fetched requests' refusal of it
FetchOutcomes(url) ==
  IF CanFetch(url)
  THEN {[ok |-> TRUE, err |-> <<>>, doc |-> d] : d \in PipeDocs}
         \cup {[ok |-> FALSE, err |-> Lit("Read timed out."), doc |-> NoDoc]}
  ELSE {[ok |-> FALSE, err |-> InvalidUrlErr, doc |-> NoDoc]}

\* what the completion can answer
Replies ==
  {Lit("Nothing to cite.")}
    \cup {Cat(Lit("A finding"), Cat(Lit(" "), Marker(n))) : n \in 1..MaxCite}

-----------------------------------------------------------------------------
(* research *)

Call(op, i) == [op |-> op, i |-> i]

\* the number of extract_content calls made so far
Extracted == Cardinality({k \in 1..Len(log) : log[k].op = "extract"})

\* the for loop of line 201: the next result, or on to line 211
LoopPc(res, done) == IF done < Len(res) THEN "extract" ELSE "summarize"

\* research without the early return of lines 193-197
AfterSearchNoEarlyExit(res) == [pc |-> LoopPc(res, 0), summary |-> <<>>]

\* lines 193-200
AfterSearch(res) ==
  IF res = <<>> THEN [pc |-> "done", summary |-> NoResultsMsg]
  ELSE [pc |-> LoopPc(res, 0), summary |-> <<>>]

\* s starts with the prefix of an extraction error
IsErrorContent(s) == s # <<>> /\ s[1] = ErrorPrefix[1]

\* a loop that leaves out the sources whose extraction failed
AddSourceSkipFailed(srcs, result, r) ==
  IF IsErrorContent(r.content) THEN srcs
  ELSE Append(srcs, [title |-> IF r.title # <<>> THEN r.title ELSE result.title,
                     url |-> result.url,
                     content |-> r.content])

\* lines 203-207
AddSource(srcs, result, r) ==
  Append(srcs, [title |-> IF r.title # <<>> THEN r.title ELSE result.title,
                url |-> result.url,
                content |-> r.content])

Init ==
  /\ pc = "search"
  /\ cfg \in [search : BOOLEAN, openai : BOOLEAN]
  /\ query \in Queries
  /\ results = <<>> /\ sources = <<>> /\ summary = <<>>
  /\ log = <<>> /\ errors = <<>> /\ completion = "none"
  /\ IdleCall
  /\ IdleAgents

\* lines 191-200
Search ==
  /\ pc = "search"
  /\ \E resp \in (IF cfg.search THEN SearchResponses ELSE {[ok |-> TRUE, items |-> <<>>]}) :
       LET got == SearchWeb(cfg.search, query, NumResults, resp)
       IN /\ results' = got.results
          /\ errors' = IF got.error THEN Append(errors, "Search API error") ELSE errors
          /\ pc' = AfterSearch(got.results).pc
          /\ summary' = AfterSearch(got.results).summary
  /\ log' = Append(log, Call("search", 0))
  /\ UNCHANGED <<cfg, query, sources, completion, xin, xout, agentVars>>

\* lines 202-207
Extract ==
  /\ pc = "extract"
  /\ LET i == Extracted + 1
     IN \E out \in FetchOutcomes(results[i].url) :
          LET r == ExtractContent(results[i].url, out)
          IN /\ log' = Append(log, Call("extract", i))
             /\ xin' = [url |-> results[i].url, out |-> out]
             /\ xout' = r
             /\ IF r.raised
                THEN pc' = "raised" /\ UNCHANGED sources
                ELSE pc' = "sleep" /\ sources' = AddSource(sources, results[i], r)
  /\ UNCHANGED <<cfg, query, results, summary, errors, completion, agentVars>>

\* line 208, and back to line 201
Sleep ==
  /\ pc = "sleep"
  /\ log' = Append(log, Call("sleep", Extracted))
  /\ pc' = LoopPc(results, Extracted)
  /\ UNCHANGED <<cfg, query, results, sources, summary, errors, completion,
                 xin, xout, agentVars>>

\* lines 211-216
Summarize ==
  /\ pc = "summarize"
  /\ \E g \in GenerateSummary(cfg.openai, sources, query, Replies) :
       /\ completion' = g.completion
       /\ errors' = IF g.error THEN Append(errors, "OpenAI API error") ELSE errors
       /\ IF g.raised
          THEN pc' = "raised" /\ UNCHANGED summary
          ELSE pc' = "done" /\ summary' = g.summary
  /\ log' = Append(log, Call("summary", 0))
  /\ UNCHANGED <<cfg, query, results, sources, xin, xout, agentVars>>

Next == Search \/ Extract \/ Sleep \/ Summarize

Spec == Init /\ [][Next]_vars

-----------------------------------------------------------------------------
(* Claims about research, under Spec *)

Cites(s) ==
  {n \in 1..(MaxCite + NumResults + 1) : \E i \in 1..Len(s) : s[i].c = Marker(n)[1].c}

\* C2: every marker [Source N] of the summary of a returned ResearchResult
\* has 1 <= N <= len(sources), in live as in offline completion mode.
C2_CitationsInRange ==
  pc = "done" => \A n \in Cites(summary) : 1 <= n /\ n <= Len(sources)

\* C6: when search returns an empty list the run is over at once: the summary
\* is "No search results found.", sources is empty, and search is the only
\* call made (no extraction, no delay, no summary).
C6_EmptySearchIsTerminal ==
  (pc # "search" /\ results = <<>>) =>
    /\ pc = "done"
    /\ summary = Lit("No search results found.")
    /\ sources = <<>>
    /\ log = <<Call("search", 0)>>

\* a live search that failed, reported, and ended the run
C6_Witness ==
  /\ pc = "done" /\ results = <<>>
  /\ cfg.search
  /\ errors = <<"Search API error">>

\* C7: when the completion call fails (live mode, sources non-empty) the
\* error is reported, nothing propagates, the summary is the offline summary
\* of the same sources and query, and the result holds every source.
C7_CompletionFailureFallsBack ==
  completion = "failed" =>
    /\ cfg.openai /\ sources # <<>>
    /\ pc = "done"
    /\ errors # <<>> /\ errors[Len(errors)] = "OpenAI API error"
    /\ summary = OfflineSummary(sources, query)
    /\ Len(sources) = Len(results)

\* a run of three sources whose completion call failed
C7_Witness == completion = "failed" /\ Len(sources) = 3 /\ pc = "done"

\* the calls of a run over n results: search, then extract and delay for
\* each result in order, then generate_summary
ExpectedLog(n) ==
  <<Call("search", 0)>>
    \o [k \in 1..(2 * n) |-> IF k % 2 = 1 THEN Call("extract", (k + 1) \div 2)
                                          ELSE Call("sleep", k \div 2)]
    \o <<Call("summary", 0)>>

IsPrefix(s, t) == Len(s) <= Len(t) /\ \A k \in 1..Len(s) : s[k] = t[k]

\* C9: the calls of a run are a prefix of search, (extract i, delay) for each
\* result in order, generate_summary; and a run over a non-empty result list
\* ends having made all of them, each exactly once.
C9_SequentialStages ==
  /\ IsPrefix(log, ExpectedLog(Len(results)))
  /\ (pc \in {"done", "raised"} /\ results # <<>>) => log = ExpectedLog(Len(results))

-----------------------------------------------------------------------------
(* One call of generate_summary in offline mode *)

MaxSources == 3

SummaryTitles ==
  { Lit("Page"),
    CatAll(<<Lit("Re"), Lit(" "), Marker(1)>>),
    CatAll(<<Lit("Line"), Lit("\n"), Lit(Bullet), Lit(" "), Lit("two")>>) }

SummarySources ==
  {[title |-> t, url |-> GoodUrl1, content |-> Lit("text")] : t \in SummaryTitles}

InitSummary ==
  /\ pc = "s_call"
  /\ cfg = NoCfg
  /\ query \in Queries
  /\ sources \in SeqsUpTo(SummarySources, MaxSources) \ {<<>>}
  /\ results = <<>> /\ summary = <<>> /\ log = <<>> /\ errors = <<>>
  /\ completion = "none"
  /\ IdleCall /\ IdleAgents

CallSummary ==
  /\ pc = "s_call"
  /\ \E g \in GenerateSummary(cfg.openai, sources, query, {}) :
       summary' = g.summary /\ completion' = g.completion
  /\ pc' = "s_ret"
  /\ UNCHANGED <<cfg, query, results, sources, log, errors, xin, xout, agentVars>>

NextSummary == CallSummary

SpecSummary == InitSummary /\ [][NextSummary]_vars

RECURSIVE CiteSeq(_)
\* the source numbers of the markers of s, in the order they occur
CiteSeq(s) ==
  IF s = <<>> THEN <<>>
  ELSE LET ns == {n \in 1..(MaxCite + MaxSources + 1) : s[1].c = Marker(n)[1].c}
       IN (IF ns = {} THEN <<>> ELSE [k \in 1..s[1].n |-> CHOOSE n \in ns : TRUE])
            \o CiteSeq(Tail(s))

\* the number of lines of s that start with a bullet
BulletLineCount(s) ==
  Cardinality({i \in 1..Len(s) : s[i].c = Bullet /\ (i = 1 \/ s[i - 1].c = "\n")})

\* C3: for every non-empty source list and every query, the offline summary
\* holds exactly the markers [Source 1] .. [Source len(sources)], once each
\* and in order, and one bullet line per source.
C3_OneMarkerAndBulletPerSource ==
  pc = "s_ret" =>
    /\ CiteSeq(summary) = [i \in 1..Len(sources) |-> i]
    /\ BulletLineCount(summary) = Len(sources)

-----------------------------------------------------------------------------
(* Agents and the process-wide credential *)

MaxAgents == 3

MaxRequests == 2

KeyArgs == {"", "K1", "K2"}

EnvKeys == {"", "KE"}

InitAgents ==
  /\ pc = "agents"
  /\ env \in EnvKeys
  /\ apiKey = env
  /\ agents = <<>> /\ requests = <<>>
  /\ IdlePipeline /\ IdleCall

\* lines 26-30: ResearchAgent(openai_api_key = k)
Construct(k) ==
  /\ Len(agents) < MaxAgents
  /\ LET own == IF k # "" THEN k ELSE env
     IN /\ agents' = Append(agents, [openai_api_key |-> own])
        /\ apiKey' = IF own # "" THEN own ELSE apiKey
  /\ UNCHANGED <<pc, env, requests, pipelineVars, xin, xout>>

\* lines 157-167: agent a, in live mode, sends its completion request, which
\* the openai module signs with openai.api_key
CompletionRequest(a) ==
  /\ Len(requests) < MaxRequests
  /\ agents[a].openai_api_key # ""
  /\ requests' = Append(requests, [agent |-> a, key |-> apiKey])
  /\ UNCHANGED <<pc, env, agents, apiKey, pipelineVars, xin, xout>>

NextAgents ==
  \/ \E k \in KeyArgs : Construct(k)
  \/ \E a \in 1..Len(agents) : CompletionRequest(a)

SpecAgents == InitAgents /\ [][NextAgents]_vars

\* C10: the credential is not written again once set, so the completion
\* request of an agent is made with the credential that agent was constructed
\* with, whatever agents were constructed after it.
C10_CredentialOfRequestIsOwn ==
  \A i \in 1..Len(requests) : requests[i].key = agents[requests[i].agent].openai_api_key

-----------------------------------------------------------------------------
(* Supporting facts: what holds of the cases the violated claims leave *)

\* Under SpecExtract: the content of a fetched page is at most 3000
\* characters long and holds no run of whitespace.
PageContentBoundedAndCollapsed ==
  (Returned /\ xin.out.ok) =>
    StrLen(xout.content) <= 3000 /\ ~HasWsRun(xout.content)

\* Under SpecExtract: extract_content raises exactly for the URLs urlparse
\* rejects; for the others a failed fetch gives the netloc as the title and
\* the error text as the content.
FailedFetchContract ==
  /\ pc = "x_raised" <=> (pc # "x_call" /\ \E i \in 1..Len(NetlocToks(xin.url)) :
                                            NetlocToks(xin.url)[i] = "[")
  /\ (Returned /\ ~xin.out.ok) =>
       /\ xout.title = ToksText(NetlocToks(xin.url))
       /\ xout.content # <<>>
       /\ xout.content[1].c = "Error extracting content:"

\* s holds no marker, bullet or line break
PlainText(s) ==
  \A i \in 1..Len(s) :
    /\ s[i].c \notin {Bullet, "\n"}
    /\ \A n \in 1..(MaxCite + MaxSources + 1) : s[i].c # Marker(n)[1].c

\* Under SpecSummary: for titles and a query of plain text the offline summary
\* holds the markers 1..len(sources) once each, in order, one bullet line each.
PlainInputsOneMarkerPerSource ==
  (pc = "s_ret" /\ PlainText(query) /\ \A i \in 1..Len(sources) : PlainText(sources[i].title)) =>
    /\ CiteSeq(summary) = [i \in 1..Len(sources) |-> i]
    /\ BulletLineCount(summary) = Len(sources)

\* Under Spec: a run that returns has made every call of its stages, in order.
ReturnedRunMadeEveryCall ==
  (pc = "done" /\ results # <<>>) => log = ExpectedLog(Len(results))

====
